---- MODULE Spec2Model ----
(***************************************************************************)
(* Model of app.py, the MNIST digit collector backend.                     *)
(*                                                                         *)
(* The module keeps two stores apart, as the code does: the remote bucket  *)
(* 'digits' that save_digit uploads to, and the local directory tree       *)
(* DATASET_ROOT/<digit>/ that /stats, /list_files, /download_zip and       *)
(* /download_numpy read.  A label is a sequence of characters, so that     *)
(* str.isdigit(), int() and str() are modelled by what they compute.       *)
(***************************************************************************)
EXTENDS Integers, Sequences, FiniteSets, TLC

\* ------------------------------------------------------------------ bounds
MaxLabelLen == 2    \* longest label string a client sends
MaxUid      == 1    \* distinct (timestamp, uuid prefix) values drawn
MaxObjects  == 2    \* objects the bucket holds at most
MaxFiles    == 2    \* files the local dataset tree holds at most
MaxRaces    == 1    \* changes made to the local tree while one export runs

\* -------------------------------------------------------- program constants
NumClasses == 10    \* range(10)

Labels == 0 .. (NumClasses - 1)

\* ------------------------------------------------------------- label strings
\* Characters a label is made of.  "sup2" is SUPERSCRIPT TWO (U+00B2), for
\* which str.isdigit() is True and int() raises ValueError; "ar3" is
\* ARABIC-INDIC DIGIT THREE (U+0663), a decimal digit of value 3.
Chars == {"0", "7", "-", "a", "sup2", "ar3"}

DecimalChars == {"0", "7", "ar3"}

DigitChars == DecimalChars \cup {"sup2"}

DecimalValue(c) ==
  CASE c = "0" -> 0
    [] c = "7" -> 7
    [] c = "ar3" -> 3

LabelStrings == UNION {[1 .. n -> Chars] : n \in 0 .. MaxLabelLen}

\* str.isdigit(): non-empty and every character is a digit character
isdigit(s) == Len(s) > 0 /\ \A i \in 1 .. Len(s) : s[i] \in DigitChars

\* int(s) raises ValueError unless every character is a decimal digit
\* (s is known to satisfy isdigit where the code calls int)
IntRaises(s) == \E i \in 1 .. Len(s) : s[i] \notin DecimalChars

RECURSIVE IntValue(_)
IntValue(s) ==
  IF Len(s) = 0 THEN 0
  ELSE 10 * IntValue(SubSeq(s, 1, Len(s) - 1)) + DecimalValue(s[Len(s)])

\* str(digit) for digit in range(10)
DigitGlyph == <<"0", "1", "2", "3", "4", "5", "6", "7", "8", "9">>

Str(d) == <<DigitGlyph[d + 1]>>

\* The ten prefixes / directory names the read endpoints iterate
PartitionNames == {Str(d) : d \in Labels}

\* 'not label.isdigit() or int(label) not in range(10)' with the ValueError
\* of int() made explicit: "reject", "raise" or "accept"
LabelCheck(label) ==
  IF ~isdigit(label) THEN "reject"
  ELSE IF IntRaises(label) THEN "raise"
  ELSE IF IntValue(label) \notin Labels THEN "reject"
  ELSE "accept"

\* ------------------------------------------------------------------- images
\* Image bytes: a 28x28 grayscale image, a 56x56 colour image, and bytes
\* that PIL cannot open
UploadImages == {"gray28", "rgb56", "junk"}

\* np.array(Image.open(img_path).convert('L')): the pixel grid, by its shape
Decode(img) == IF img = "gray28" THEN [shape |-> <<28, 28>>]
               ELSE [shape |-> <<56, 56>>]

\* Whether Image.open(...) succeeds on the bytes
Decodable(img) == img # "junk"

\* Image.open(...).convert('L') then resize to (28, 28) unless already so
Normalize(img) == [mode |-> "L", size |-> <<28, 28>>]

\* f'digit_{label}_{timestamp}_{unique_id}.png'
Filename(label, uid) == [stem |-> <<"digit", label, uid>>, ext |-> "png"]

\* f"{label}/{filename}"
PathInBucket(label, uid) == <<label, Filename(label, uid)>>

\* ------------------------------------------------------------ local dataset
\* Directories of DATASET_ROOT in which files are placed from outside the
\* program (the program itself never writes the local tree)
EnvDirs == {Str(0), Str(7), Str(9)}

PngA == [stem |-> "a", ext |-> "png"]
PngB == [stem |-> "b", ext |-> "png"]
TxtN == [stem |-> "n", ext |-> "txt"]

LocalNames == {PngA, PngB, TxtN}

\* The contents a file of each name may have
LocalContents(name) == IF name = PngA THEN {"gray28", "junk"}
                       ELSE IF name = PngB THEN {"gray28", "gray56"}
                       ELSE {"junk"}

\* filename.endswith('.png')
EndsWithPng(name) == name.ext = "png"

\* os.path.join(folder_path, filename)
PathJoin(dir, name) == <<dir, name>>

\* os.path.exists(folder_path)
Exists(ds, dir) == dir \in ds

\* os.listdir(folder_path), as a set: the names of the files of dir
Listdir(fl, dir) == {name \in LocalNames : PathJoin(dir, name) \in DOMAIN fl}

\* The orders in which os.listdir may return the names (any order)
ListingOrders == {o \in [1 .. Cardinality(LocalNames) -> LocalNames] :
                    \A i, j \in DOMAIN o : i # j => o[i] # o[j]}

RECURSIVE Filtered(_, _)
Filtered(o, keep) ==
  IF Len(o) = 0 THEN <<>>
  ELSE IF Head(o) \in keep THEN <<Head(o)>> \o Filtered(Tail(o), keep)
  ELSE Filtered(Tail(o), keep)

\* [f for f in os.listdir(folder_path) if f.endswith('.png')]
PngListing(fl, dir, o) ==
  Filtered(o, {name \in Listdir(fl, dir) : EndsWithPng(name)})

\* -------------------------------------------------------------------- state
VARIABLES
  request,   \* the multipart parts of the request being handled
  bucket,    \* remote bucket 'digits': storage key -> stored bytes
  put,       \* the backend upload call the current save_digit request made
  uploaded,  \* per label 0-9, the number of uploads answered with success
  dirs,      \* directories that exist under DATASET_ROOT
  files,     \* local files: path <<dir, name>> -> content
  pc,        \* "idle", "zip", "numpy" (an export loop running) or "done"
  digit,     \* loop variable of the running export ('digit' / 'label')
  pending,   \* names listed in the current directory, not yet visited
  archive,   \* entries written to the ZipFile so far
  X,         \* images accumulated by download_numpy
  y,         \* labels accumulated by download_numpy
  opened,    \* the img_path values download_numpy has opened, in order
  fetch,     \* outcome of the running export's latest file read
  raced,     \* number of changes made to the local tree while the export ran
  resp       \* the response the handler returned (pc = "done")

vars == <<request, bucket, put, uploaded, dirs, files, pc, digit, pending,
          archive, X, y, opened, fetch, raced, resp>>

remoteVars == <<request, bucket, put, uploaded>>

localVars == <<dirs, files>>

loopVars == <<digit, pending, archive, X, y, opened, fetch, raced>>

NoParts == [image |-> <<>>, label |-> <<>>]

NoPut == [called |-> FALSE, key |-> <<>>, result |-> "none"]

NoResp == [op |-> "none", status |-> 0, body |-> <<>>]

Reply(op, status, body) == [op |-> op, status |-> status, body |-> body]

\* jsonify({'error': ...}), code
ErrorReply(op, status, msg) == Reply(op, status, [error |-> msg])

\* The module is either run as a script, and init_dataset_folders() creates
\* the ten folders, or imported by a WSGI server, and nothing is created.
init_dataset_folders == PartitionNames

Init ==
  /\ request = NoParts
  /\ bucket = <<>>
  /\ put = NoPut
  /\ uploaded = [d \in Labels |-> 0]
  /\ dirs \in {init_dataset_folders, {}}
  /\ files = <<>>
  /\ pc = "idle"
  /\ digit = 0
  /\ pending = {}
  /\ archive = <<>>
  /\ X = <<>>
  /\ y = <<>>
  /\ opened = <<>>
  /\ fetch = "none"
  /\ raced = 0
  /\ resp = NoResp

\* --------------------------------------------------------------- save_digit
\* A request's multipart parts: each is absent (<<>>) or present (<<v>>)
ImageParts == {<<>>} \cup {<<i>> : i \in UploadImages}

LabelParts == {<<>>} \cup {<<l>> : l \in LabelStrings}

\* Results of supabase.storage.from_('digits').upload(...): a mapping without
\* an error, a mapping with an error, or a raised exception
PutResults == {"ok", "error", "raise"}

\* What the backend can answer for a key: an existing key is not overwritten,
\* and the bucket holds at most MaxObjects objects
PutResultsFor(b, key) ==
  IF key \in DOMAIN b \/ Cardinality(DOMAIN b) >= MaxObjects
  THEN {"error", "raise"} ELSE PutResults

\* The bucket after upload(path_in_bucket, img_bytes) with result res
Upload(b, key, bytes, res) ==
  IF res = "ok" THEN [k \in DOMAIN b \cup {key} |-> IF k = key THEN bytes ELSE b[k]]
  ELSE b

\* Where save_digit's control flow ends for a request, before any upload:
\* "missing" (line 36), "badlabel" (line 42), "except" (an exception of
\* int() or Image.open, line 74) or "upload" (line 61 is reached)
SaveDigitPath(image, label) ==
  IF image = <<>> \/ label = <<>> THEN "missing"
  ELSE IF LabelCheck(label[1]) = "reject" THEN "badlabel"
  ELSE IF LabelCheck(label[1]) = "raise" THEN "except"
  ELSE IF ~Decodable(image[1]) THEN "except"
  ELSE "upload"

\* The response of save_digit when it returns before the upload
EarlyReply(path) ==
  CASE path = "missing" -> ErrorReply("save_digit", 400, "Image and label required")
    [] path = "badlabel" -> ErrorReply("save_digit", 400, "Label must be 0-9")
    [] path = "except" -> ErrorReply("save_digit", 500, "exception")

\* Variant of UploadReply that does not look at the result's error
UploadReplyIgnoresError(label, filename, res) ==
  IF res = "raise" THEN ErrorReply("save_digit", 500, "exception")
  ELSE Reply("save_digit", 200,
             [success |-> TRUE, filename |-> filename, label |-> label])

\* The response of save_digit once the upload returned res (lines 63-74)
UploadReply(label, filename, res) ==
  IF res = "raise" THEN ErrorReply("save_digit", 500, "exception")
  ELSE IF res = "error" THEN ErrorReply("save_digit", 500, "backend")
  ELSE Reply("save_digit", 200,
             [success |-> TRUE, filename |-> filename, label |-> label])

SaveDigit ==
  /\ pc = "idle"
  /\ \E image \in ImageParts, label \in LabelParts :
       /\ request' = [image |-> image, label |-> label]
       /\ IF SaveDigitPath(image, label) = "upload"
          THEN \E uid \in 1 .. MaxUid :
                 LET key == PathInBucket(label[1], uid) IN
                 \E res \in PutResultsFor(bucket, key) :
                   /\ bucket' = Upload(bucket, key, Normalize(image[1]), res)
                   /\ put' = [called |-> TRUE, key |-> key, result |-> res]
                   /\ resp' = UploadReply(label[1], Filename(label[1], uid), res)
                   /\ uploaded' =
                        IF resp'.status = 200
                        THEN [uploaded EXCEPT ![IntValue(label[1])] = @ + 1]
                        ELSE uploaded
          ELSE /\ resp' = EarlyReply(SaveDigitPath(image, label))
               /\ put' = NoPut
               /\ UNCHANGED <<bucket, uploaded>>
  /\ pc' = "done"
  /\ UNCHANGED <<localVars, loopVars>>

\* ---------------------------------------------------------------- get_stats
\* Variant of PngCount that counts every listed name
PngCountUnfiltered(fl, dir) == Cardinality(Listdir(fl, dir))

\* len([f for f in os.listdir(folder_path) if f.endswith('.png')])
PngCount(fl, dir) == Cardinality({f \in Listdir(fl, dir) : EndsWithPng(f)})

\* The loop of get_stats from 'digit' on: <<stats, total>>
RECURSIVE StatsLoop(_, _, _, _, _)
StatsLoop(ds, fl, d, stats, total) ==
  IF d = NumClasses THEN <<stats, total>>
  ELSE IF Exists(ds, Str(d))
  THEN LET count == PngCount(fl, Str(d))
       IN StatsLoop(ds, fl, d + 1, stats @@ (Str(d) :> count), total + count)
  ELSE StatsLoop(ds, fl, d + 1, stats @@ (Str(d) :> 0), total)

get_stats(ds, fl) ==
  LET r == StatsLoop(ds, fl, 0, <<>>, 0)
  IN Reply("stats", 200, [stats |-> r[1], total |-> r[2]])

GetStats ==
  /\ pc = "idle"
  /\ \E io \in {"ok", "oserror"} :
       resp' = IF io = "ok" THEN get_stats(dirs, files)
               ELSE ErrorReply("stats", 500, "exception")
  /\ pc' = "done"
  /\ put' = NoPut
  /\ request' = NoParts
  /\ UNCHANGED <<bucket, uploaded, localVars, loopVars>>

\* --------------------------------------------------------------- list_files
RECURSIVE ListLoop(_, _, _, _, _)
ListLoop(ds, fl, o, d, listed) ==
  IF d = NumClasses THEN listed
  ELSE IF Exists(ds, Str(d))
  THEN ListLoop(ds, fl, o, d + 1, listed @@ (Str(d) :> PngListing(fl, Str(d), o)))
  ELSE ListLoop(ds, fl, o, d + 1, listed @@ (Str(d) :> <<>>))

RECURSIVE SumLen(_, _)
SumLen(f, S) ==
  IF S = {} THEN 0
  ELSE LET x == CHOOSE x \in S : TRUE IN Len(f[x]) + SumLen(f, S \ {x})

list_files(ds, fl, o) ==
  LET listed == ListLoop(ds, fl, o, 0, <<>>)
  IN Reply("list_files", 200,
           [files |-> listed, total |-> SumLen(listed, DOMAIN listed)])

ListFiles ==
  /\ pc = "idle"
  /\ \E io \in {"ok", "oserror"}, o \in ListingOrders :
       resp' = IF io = "ok" THEN list_files(dirs, files, o)
               ELSE ErrorReply("list_files", 500, "exception")
  /\ pc' = "done"
  /\ put' = NoPut
  /\ request' = NoParts
  /\ UNCHANGED <<bucket, uploaded, localVars, loopVars>>

\* ------------------------------------------------------- health_check, index
HealthCheck ==
  /\ pc = "idle"
  /\ resp' = Reply("health", 200, [status |-> "running"])
  /\ pc' = "done"
  /\ put' = NoPut
  /\ request' = NoParts
  /\ UNCHANGED <<bucket, uploaded, localVars, loopVars>>

Index ==
  /\ pc = "idle"
  /\ resp' = Reply("index", 200, [text |-> "banner"])
  /\ pc' = "done"
  /\ put' = NoPut
  /\ request' = NoParts
  /\ UNCHANGED <<bucket, uploaded, localVars, loopVars>>

\* The response is sent and the request's locals are gone
Deliver ==
  /\ pc = "done"
  /\ pc' = "idle"
  /\ resp' = NoResp
  /\ put' = NoPut
  /\ request' = NoParts
  /\ digit' = 0
  /\ pending' = {}
  /\ archive' = <<>>
  /\ X' = <<>>
  /\ y' = <<>>
  /\ opened' = <<>>
  /\ fetch' = "none"
  /\ raced' = 0
  /\ UNCHANGED <<bucket, uploaded, localVars>>

\* ------------------------------------------------- the tree changes outside
\* The local tree is written only from outside the program.  A change made
\* while an export loop runs is counted in raced.
ExternalPut ==
  /\ pc # "done"
  /\ pc \in {"zip", "numpy"} => raced < MaxRaces
  /\ \E dir \in EnvDirs, name \in LocalNames :
       \E content \in LocalContents(name) :
         LET path == PathJoin(dir, name) IN
         /\ path \in DOMAIN files \/ Cardinality(DOMAIN files) < MaxFiles
         /\ path \in DOMAIN files => files[path] # content
         /\ files' = [q \in DOMAIN files \cup {path} |->
                        IF q = path THEN content ELSE files[q]]
         /\ dirs' = dirs \cup {dir}
  /\ raced' = IF pc \in {"zip", "numpy"} THEN raced + 1 ELSE raced
  /\ UNCHANGED <<remoteVars, pc, digit, pending, archive, X, y, opened, fetch, resp>>

ExternalRemove ==
  /\ pc # "done"
  /\ pc \in {"zip", "numpy"} => raced < MaxRaces
  /\ \E path \in DOMAIN files :
       files' = [q \in DOMAIN files \ {path} |-> files[q]]
  /\ raced' = IF pc \in {"zip", "numpy"} THEN raced + 1 ELSE raced
  /\ UNCHANGED <<remoteVars, dirs, pc, digit, pending, archive, X, y, opened,
               fetch, resp>>

\* ------------------------------------------------------------- export loops
\* Outcomes of reading one listed file: read, gone since the listing
\* (FileNotFoundError), or another OSError
ReadOutcomes(fl, path) ==
  IF path \in DOMAIN fl THEN {"ok", "oserror"} ELSE {"notfound"}

\* 'for digit in range(10)': the next value once the current folder is done
NextDigit(d, left) == IF left = {} THEN d + 1 ELSE d

\* One iteration of the outer loop of an export: the folder is missing and
\* skipped, or listed (os.path.exists, os.listdir)
ListFolder(loop) ==
  /\ pc = loop
  /\ pending = {}
  /\ digit < NumClasses
  /\ pending' = IF Exists(dirs, Str(digit)) THEN Listdir(files, Str(digit)) ELSE {}
  /\ digit' = NextDigit(digit, pending')
  /\ UNCHANGED <<remoteVars, localVars, pc, archive, X, y, opened, fetch, raced, resp>>

\* A listed name that does not end in '.png' is passed over
SkipName(loop) ==
  /\ pc = loop
  /\ \E name \in pending :
       /\ ~EndsWithPng(name)
       /\ pending' = pending \ {name}
       /\ digit' = NextDigit(digit, pending')
  /\ UNCHANGED <<remoteVars, localVars, pc, archive, X, y, opened, fetch, raced, resp>>

\* ------------------------------------------------------------- download_zip
DownloadZip ==
  /\ pc = "idle"
  /\ pc' = "zip"
  /\ put' = NoPut
  /\ request' = NoParts
  /\ UNCHANGED <<bucket, uploaded, localVars, loopVars, resp>>

\* Variant of ZipEntry that names the entry by the file name alone
ZipEntryFlat(d, name, data) == [arcname |-> <<name>>, data |-> data]

\* zf.write(file_path, os.path.join(str(digit), filename))
ZipEntry(d, name, data) == [arcname |-> PathJoin(Str(d), name), data |-> data]

\* Variant of ZipAfterRead that passes over a file it could not read
ZipAfterReadSkips(outcome) == "continue"

\* What download_zip does after a read: go on with the loop, or leave
\* through 'except Exception' (line 133)
ZipAfterRead(outcome) == IF outcome = "ok" THEN "continue" ELSE "abort"

ZipWrite ==
  /\ pc = "zip"
  /\ \E name \in pending :
       LET path == PathJoin(Str(digit), name) IN
       /\ EndsWithPng(name)
       /\ \E outcome \in ReadOutcomes(files, path) :
            /\ fetch' = outcome
            /\ pending' = pending \ {name}
            /\ digit' = NextDigit(digit, pending')
            /\ IF ZipAfterRead(outcome) = "abort"
               THEN /\ pc' = "done"
                    /\ resp' = ErrorReply("download_zip", 500, "exception")
                    /\ UNCHANGED archive
               ELSE /\ archive' = IF outcome = "ok"
                                  THEN Append(archive, ZipEntry(digit, name, files[path]))
                                  ELSE archive
                    /\ UNCHANGED <<pc, resp>>
  /\ UNCHANGED <<remoteVars, localVars, X, y, opened, raced>>

\* send_file(memory_file, mimetype='application/zip', ...)
ZipSend ==
  /\ pc = "zip"
  /\ digit = NumClasses
  /\ pending = {}
  /\ pc' = "done"
  /\ resp' = Reply("download_zip", 200,
                   [mimetype |-> "application/zip", archive |-> archive])
  /\ UNCHANGED <<remoteVars, localVars, loopVars>>

\* ----------------------------------------------------------- download_numpy
DownloadNumpy ==
  /\ pc = "idle"
  /\ pc' = "numpy"
  /\ put' = NoPut
  /\ request' = NoParts
  /\ UNCHANGED <<bucket, uploaded, localVars, loopVars, resp>>

\* Image.open(img_path).convert('L') raises on a missing or unreadable file
\* and on bytes that are no image
OpenOutcomes(fl, path) ==
  IF path \notin DOMAIN fl THEN {"notfound"}
  ELSE IF Decodable(fl[path]) THEN {"ok", "oserror"}
  ELSE {"undecodable", "oserror"}

\* Variant of AppendLabel that numbers the folders from one
AppendLabelFromOne(labels, d) == Append(labels, d + 1)

\* y.append(label): the labels after the image of folder d was appended
AppendLabel(labels, d) == Append(labels, d)

NumpyAppend ==
  /\ pc = "numpy"
  /\ \E name \in pending :
       LET path == PathJoin(Str(digit), name) IN
       /\ EndsWithPng(name)
       /\ \E outcome \in OpenOutcomes(files, path) :
            /\ fetch' = outcome
            /\ pending' = pending \ {name}
            /\ digit' = NextDigit(digit, pending')
            /\ IF outcome = "ok"
               THEN /\ X' = Append(X, Decode(files[path]))
                    /\ y' = AppendLabel(y, digit)
                    /\ opened' = Append(opened, path)
                    /\ UNCHANGED <<pc, resp>>
               ELSE /\ pc' = "done"
                    /\ resp' = ErrorReply("download_numpy", 500, "exception")
                    /\ UNCHANGED <<X, y, opened>>
  /\ UNCHANGED <<remoteVars, localVars, archive, raced>>

\* np.array(X) of grids of one shape stacks them; of grids of different
\* shapes it builds an object array (older NumPy) or raises ValueError
StackOutcomes(imgs) ==
  IF \A i, j \in DOMAIN imgs : imgs[i].shape = imgs[j].shape
  THEN {"stacked"} ELSE {"object", "valueerror"}

\* Variant of NoImages that never reports an empty dataset
NoImagesNever(imgs) == FALSE

\* 'if len(X) == 0' (line 156)
NoImages(imgs) == Len(imgs) = 0

NumpySend ==
  /\ pc = "numpy"
  /\ digit = NumClasses
  /\ pending = {}
  /\ pc' = "done"
  /\ IF NoImages(X)
     THEN resp' = ErrorReply("download_numpy", 404, "No images found")
     ELSE \E st \in StackOutcomes(X) :
            resp' = IF st = "valueerror"
                    THEN ErrorReply("download_numpy", 500, "exception")
                    ELSE Reply("download_numpy", 200,
                               [mimetype |-> "application/octet-stream",
                                X |-> X, y |-> y])
  /\ UNCHANGED <<remoteVars, localVars, loopVars>>

\* ------------------------------------------------------------ specifications
\* Uploads and the JSON endpoints, with the local tree as the program left it
NextUpload ==
  \/ SaveDigit
  \/ GetStats
  \/ ListFiles
  \/ HealthCheck
  \/ Index
  \/ Deliver

SpecUpload == Init /\ [][NextUpload]_vars

\* The read endpoints over a local tree that changes from outside
NextRead ==
  \/ ExternalPut
  \/ ExternalRemove
  \/ GetStats
  \/ ListFiles
  \/ DownloadZip
  \/ ListFolder("zip")
  \/ SkipName("zip")
  \/ ZipWrite
  \/ ZipSend
  \/ DownloadNumpy
  \/ ListFolder("numpy")
  \/ SkipName("numpy")
  \/ NumpyAppend
  \/ NumpySend
  \/ Deliver

SpecRead == Init /\ [][NextRead]_vars

Next == NextUpload \/ NextRead

Spec == Init /\ [][Next]_vars

\* =================================================================== claims
\* Vocabulary of the claims

\* The stored samples of the local dataset: the '.png' files of the ten
\* label folders
Samples == {path \in DOMAIN files :
              path[1] \in PartitionNames /\ path[2].ext = "png"}

\* A label string that is written exactly as one of the integers 0..9
CanonicalLabel(l) == Len(l) = 1 /\ l[1] \in {"0", "7"}

\* A label string that denotes an integer in 0..9 in any decimal spelling
\* (leading zeros, another script's digits, a sign before zero)
RECURSIVE AllDecimal(_)
AllDecimal(l) == Len(l) = 0 \/ (Head(l) \in DecimalChars /\ AllDecimal(Tail(l)))

DenotesLabel(l) ==
  \/ Len(l) > 0 /\ AllDecimal(l) /\ IntValue(l) \in Labels
  \/ Len(l) > 1 /\ l[1] = "-" /\ AllDecimal(Tail(l)) /\ IntValue(Tail(l)) = 0

SaveDigitDone == pc = "done" /\ resp.op = "save_digit"

BothParts == request.image # <<>> /\ request.label # <<>>

RECURSIVE SumUploaded(_)
SumUploaded(S) ==
  IF S = {} THEN 0
  ELSE LET d == CHOOSE d \in S : TRUE IN uploaded[d] + SumUploaded(S \ {d})

\* C1: starting from an empty dataset, a successful /stats response reports
\* for every label the number of samples uploaded with it, and their total.
C1_StatsCountUploads ==
  (pc = "done" /\ resp.op = "stats" /\ resp.status = 200) =>
    /\ \A d \in Labels : resp.body.stats[Str(d)] = uploaded[d]
    /\ resp.body.total = SumUploaded(Labels)

\* C2: a save_digit request with both parts whose label does not denote an
\* integer 0..9 is answered 400 and stores nothing.
C2_BadLabelIs400 ==
  (SaveDigitDone /\ BothParts /\ ~DenotesLabel(request.label[1])) =>
    (resp.status = 400 /\ ~put.called)

\* C3: every key stored by save_digit lies in one of the ten label
\* partitions "0".."9" that the read operations iterate.
C3_KeyInLabelPartition ==
  \A key \in DOMAIN bucket : key[1] \in PartitionNames

\* C4: a save_digit request with a valid label and undecodable image bytes is
\* answered 400 and stores nothing.
C4_UndecodableIs400 ==
  (/\ SaveDigitDone
   /\ BothParts
   /\ CanonicalLabel(request.label[1])
   /\ ~Decodable(request.image[1])) =>
    (resp.status = 400 /\ ~put.called)

\* C5: save_digit answers 200 only if the backend put stored the sample
\* under its key; a failed put (error result or exception) is answered 500
\* with an error message; a put that succeeded is never answered 500.
C5_PutOutcomeDecidesReply ==
  SaveDigitDone =>
    /\ resp.status = 200 =>
         (put.called /\ put.result = "ok" /\ put.key \in DOMAIN bucket)
    /\ (put.called /\ put.result # "ok") =>
         (resp.status = 500 /\ DOMAIN resp.body = {"error"})
    /\ (put.called /\ put.result = "ok") => resp.status # 500

C5_Witness ==
  /\ SaveDigitDone
  /\ put.called
  /\ put.result = "error"
  /\ resp.status = 500
  /\ DOMAIN bucket # {}

\* The flattened /list_files result: the number of filenames in all lists
RECURSIVE FlatCount(_, _)
FlatCount(listed, S) ==
  IF S = {} THEN 0
  ELSE LET p == CHOOSE p \in S : TRUE
       IN Len(listed[p]) + FlatCount(listed, S \ {p})

RECURSIVE SumCounts(_, _)
SumCounts(counts, S) ==
  IF S = {} THEN 0
  ELSE LET p == CHOOSE p \in S : TRUE
       IN counts[p] + SumCounts(counts, S \ {p})

\* C6: in a /stats response total is the sum of the ten per-label counts and
\* equals the number of filenames of the flattened /list_files result on the
\* same store state; each of the ten labels has an entry, 0 or an empty list
\* when its partition does not exist.
C6_StatsTotalMatchesListing ==
  (pc = "done" /\ resp.op = "stats" /\ resp.status = 200) =>
    /\ DOMAIN resp.body.stats = PartitionNames
    /\ resp.body.total = SumCounts(resp.body.stats, PartitionNames)
    /\ \A o \in ListingOrders :
         LET listing == list_files(dirs, files, o).body.files IN
         /\ DOMAIN listing = PartitionNames
         /\ resp.body.total = FlatCount(listing, PartitionNames)
         /\ \A p \in PartitionNames \ dirs :
              resp.body.stats[p] = 0 /\ listing[p] = <<>>

C6_Witness ==
  /\ pc = "done"
  /\ resp.op = "stats"
  /\ resp.status = 200
  /\ resp.body.total = 1
  /\ \E path \in DOMAIN files : path[2].ext # "png"
  /\ PartitionNames \ dirs # {}

\* C7: the archive of a successful /download_zip over an unchanging store
\* has exactly one entry per stored sample, at "<label>/<filename>", with the
\* sample's stored content, and no other entry.
C7_ZipHoldsEverySampleOnce ==
  (pc = "done" /\ resp.op = "download_zip" /\ resp.status = 200 /\ raced = 0) =>
    LET zip == resp.body.archive IN
    /\ {zip[i].arcname : i \in DOMAIN zip} = Samples
    /\ \A i, j \in DOMAIN zip : zip[i].arcname = zip[j].arcname => i = j
    /\ \A i \in DOMAIN zip : zip[i].data = files[zip[i].arcname]

C7_Witness ==
  /\ pc = "done"
  /\ resp.op = "download_zip"
  /\ resp.status = 200
  /\ raced = 0
  /\ Len(resp.body.archive) = 2
  /\ resp.body.archive[1].arcname[1] # resp.body.archive[2].arcname[1]

\* C8: in a successful /download_numpy export y is as long as X, y[i] is the
\* label of the partition image i was read from, and every y[i] is in 0..9.
C8_LabelsParallelImages ==
  (pc = "done" /\ resp.op = "download_numpy" /\ resp.status = 200) =>
    /\ Len(resp.body.y) = Len(resp.body.X)
    /\ Len(opened) = Len(resp.body.X)
    /\ \A i \in DOMAIN resp.body.y :
         /\ resp.body.y[i] \in 0 .. 9
         /\ opened[i][1] = Str(resp.body.y[i])

C8_Witness ==
  /\ pc = "done"
  /\ resp.op = "download_numpy"
  /\ resp.status = 200
  /\ Len(resp.body.y) = 2
  /\ resp.body.y[1] # resp.body.y[2]
  /\ 9 \in {resp.body.y[i] : i \in DOMAIN resp.body.y}

\* Whether every stored sample is an image of the canonical 28x28 size or
\* bytes that are no image at all
CanonicalSizes == \A s \in Samples : files[s] \in {"gray28", "junk"}

NumpyDone == pc = "done" /\ resp.op = "download_numpy" /\ raced = 0

\* C9 as stated: /download_numpy answers 404 exactly when no partition holds
\* a sample, and the packed arrays whenever at least one sample is stored
\* and readable.
C9_AnyReadableSampleGivesArrays ==
  (NumpyDone /\ CanonicalSizes /\ fetch # "oserror") =>
    /\ resp.status = 404 <=> Samples = {}
    /\ (\E s \in Samples : Decodable(files[s])) => resp.status = 200

\* C9 as amended: /download_numpy answers 404 exactly when no partition
\* holds a sample; the packed arrays when at least one sample is stored and
\* every stored sample is read and decoded as a 28x28 image; and 500 when a
\* stored sample is no image.
C9_AllReadableSamplesGiveArrays ==
  NumpyDone =>
    /\ resp.status = 404 <=> Samples = {}
    /\ resp.status = 404 => DOMAIN resp.body = {"error"}
    /\ (/\ Samples # {}
        /\ \A s \in Samples : files[s] = "gray28"
        /\ fetch # "oserror") =>
         (resp.status = 200 /\ Len(resp.body.X) = Cardinality(Samples))
    /\ (\E s \in Samples : ~Decodable(files[s])) => resp.status = 500

C9_Witness ==
  /\ NumpyDone
  /\ resp.status = 500
  /\ fetch = "undecodable"
  /\ \E s \in Samples : Decodable(files[s])

\* C10: when reading a listed sample fails during /download_zip, also one
\* that disappeared after the listing, the export ends with a 500 error body
\* and no archive; and no step of the export changes a store.
C10_FetchFailureAbortsZip ==
  /\ [](((pc = "zip" \/ (pc = "done" /\ resp.op = "download_zip"))
         /\ fetch \in {"notfound", "oserror"}) =>
          (/\ pc = "done"
           /\ resp.status = 500
           /\ DOMAIN resp.body = {"error"}))
  /\ [][(pc = "zip" /\ <<digit, pending, archive, pc, resp>>'
                         # <<digit, pending, archive, pc, resp>>) =>
          UNCHANGED <<dirs, files, bucket>>]_vars

C10_Witness ==
  /\ pc = "done"
  /\ resp.op = "download_zip"
  /\ resp.status = 500
  /\ fetch = "notfound"
  /\ Len(archive) = 1
  /\ raced = 1

====
